---- MODULE Spec2Model ----
(***************************************************************************)
(* Model of the price-experiment engine, engine/pricing_engine.py          *)
(* (run_creator_sim_core), and of the process-wide numpy generator it      *)
(* draws from; and of the web lookup of the dashboard, app.py              *)
(* (fetch_onlyfans_profile, fetch_creator_profile_from_web and the         *)
(* "Lookup from web" button).                                              *)
(*                                                                         *)
(* Numbers.  Revenue, prices and Gamma samples are whole dollars; a Beta   *)
(* sample is k/20; every probability or ratio the code holds as a float is *)
(* a pair <<numerator, denominator>> with a positive denominator, and is   *)
(* compared by cross multiplication.  The generator is a linear            *)
(* congruential generator modulo RngMod: a draw is a function of the       *)
(* generator's state and of the distribution's parameters, and advances    *)
(* the state by one.                                                       *)
(***************************************************************************)
EXTENDS Integers, Sequences, FiniteSets, TLC

VARIABLES
    cfg,        \* cfg[r]: the arguments of invocation r of run_creator_sim_core
    run,        \* run[r]: the frame of invocation r (its locals and its position)
    np_random,  \* the state of numpy's global generator (np.random.*)
    app         \* the dashboard: the lookup widgets, the last web response,
                \* st.session_state.web_profile and the sidebar message

vars == <<cfg, run, np_random, app>>

Runs == {1, 2}

\* ------------------------------------------------------------------ bounds

\* The generator has RngMod states.
RngMod == 31
\* Seeds are drawn from 0..MaxSeed.
MaxSeed == 3
\* n_events is drawn up to MaxAdaptive events past the forced exploration.
MaxAdaptive == 2
\* Monte Carlo trials per arm (the code draws 10000).
n_samples == 3
\* Beta samples per arm of the in-loop guardrail (the code draws 2000).
n_churn_samples == 2
\* Beta samples per arm of the final safety table (the code draws 5000).
n_safe_samples == 2

\* ------------------------------------------------------- program constants

\* Forced exploration rounds per arm.
ForcedRounds == 10

baseline_arm == "A"

\* The priors: alpha0, beta0 (revenue, Gamma) and a0, b0 (churn, Beta), N = 0.
Prior == [alpha |-> 1, beta |-> 1, a |-> 1, b |-> 1, N |-> 0]

\* ---------------------------------------------------------- the generator

\* A generator that folds the seed into the state it already has.
SeedMixedIn(g, seed) == (g + 7 * seed + 1) % RngMod

\* np.random.seed(seed) on a generator in state g: the new state is a
\* function of the seed alone.
np_random_seed(g, seed) == (7 * seed + 1) % RngMod

\* One draw advances the state.
RngNext(g) == (3 * g + 5) % RngMod

RECURSIVE RngAdvance(_, _)
RngAdvance(g, k) == IF k = 0 THEN g ELSE RngAdvance(RngNext(g), k - 1)

\* np.random.lognormal(mu, sigma) with mu = log(m) - sigma^2/2: a positive
\* revenue spread around the mean m.
Lognormal(m, g) == LET f == <<1, 2, 2, 4>>[(g % 4) + 1] IN (m * f) \div 2

\* int(np.random.rand() < churn_prob), churn_prob = pct/100, rand = g/RngMod.
Bernoulli(pct, g) == IF g * 100 < pct * RngMod THEN 1 ELSE 0

\* np.random.randint(1, 31): 1..30.
RandInt(g) == 1 + (g % 30)

Clamp(x, lo, hi) == IF x < lo THEN lo ELSE IF x > hi THEN hi ELSE x

\* np.random.beta(a, b): k/20 with 0 < k < 20, spread around a/(a+b).
BetaSample(a, b, g) == Clamp(((a * 20) \div (a + b)) + (g % 5) - 2, 1, 19)

\* np.random.gamma(shape=alpha, scale=1/beta): spread around alpha/beta, >= 0.
GammaSample(alpha, beta, g) ==
    LET x == (alpha \div beta) + (g % 5) - 2 IN IF x < 0 THEN 0 ELSE x

\* size=n draws: the j-th uses the state after j-1 draws.
BetaArray(a, b, n, g) == [j \in 1..n |-> BetaSample(a, b, RngAdvance(g, j - 1))]

GammaArray(alpha, beta, n, g) ==
    [j \in 1..n |-> GammaSample(alpha, beta, RngAdvance(g, j - 1))]

\* -------------------------------------------------------- configurations

Labels == {"A", "B", "C"}

\* The three-arm scenario of the report, and a variant whose arm B is a
\* cheaper, high-churn offer.
TypicalArms ==
    [l \in Labels |->
        CASE l = "A" -> [price |-> 10, true_mean_revenue |-> 12, true_churn |-> 20]
          [] l = "B" -> [price |-> 12, true_mean_revenue |-> 14, true_churn |-> 21]
          [] OTHER   -> [price |-> 13, true_mean_revenue |-> 12, true_churn |-> 50]]

DiscountArms ==
    [l \in Labels |->
        CASE l = "A" -> [price |-> 10, true_mean_revenue |-> 12, true_churn |-> 20]
          [] l = "B" -> [price |-> 9,  true_mean_revenue |-> 10, true_churn |-> 60]
          [] OTHER   -> [price |-> 13, true_mean_revenue |-> 16, true_churn |-> 10]]

\* Low-priced arms, whose Gamma samples, in whole dollars, reach 0.
BudgetArms ==
    [l \in Labels |->
        CASE l = "A" -> [price |-> 3, true_mean_revenue |-> 2, true_churn |-> 20]
          [] l = "B" -> [price |-> 4, true_mean_revenue |-> 3, true_churn |-> 21]
          [] OTHER   -> [price |-> 5, true_mean_revenue |-> 2, true_churn |-> 50]]

\* The keys of true_price_arms in insertion order.
ArmLists == { <<"A", "B">>, <<"A", "B", "C">>, <<"B", "A">>, <<"A">>,
              <<"B", "C">>, <<>> }

\* n_events: a short run (of one event, or of three), or the forced
\* exploration and up to MaxAdaptive more.
EventCounts(arm_list) ==
    {1, 3} \cup { Len(arm_list) * ForcedRounds + k : k \in 0..MaxAdaptive }

ConfigsOf(al) ==
    { [arm_list |-> al, arms |-> t, seed |-> s, n_events |-> n,
       max_rel_churn_increase |-> <<1, 10>>, tau |-> tau] :
        t \in {TypicalArms, DiscountArms, BudgetArms}, s \in 0..MaxSeed,
        n \in EventCounts(al), tau \in { <<9, 10>>, <<1, 2>> } }

Configs == UNION { ConfigsOf(al) : al \in ArmLists }

\* ------------------------------------------------------------- the frame

NoArms == [l \in {} |-> 0]

\* The locals of choose_price_arm before its first call: the cap, the Beta
\* samples of each arm the scan sampled, the safe arms, the Thompson draws.
NoChoice ==
    [churn_cap |-> <<0, 1>>, theta_samples |-> NoArms, safe_arms |-> <<>>,
     sampled_revenue |-> <<>>]

\* A frame before the call.  chose counts the calls of choose_price_arm and
\* choice holds the locals of its last call; the tables hold counts of
\* samples where the code holds fractions.
Idle ==
    [pc |-> "idle", error |-> "none", posteriors |-> NoArms, events |-> <<>>,
     chose |-> 0, choice |-> NoChoice, summary_obs |-> NoArms,
     summary_post |-> NoArms, samples_mat |-> <<>>, churn_cap |-> <<0, 1>>,
     prob_df |-> NoArms, safe_df |-> NoArms, best_arm |-> "none",
     best_price |-> 0, uplift_pct |-> <<0, 1>>, prob_ge_3 |-> 0,
     report_table |-> <<>>]

Raise(st, e) == [st EXCEPT !.pc = "raised", !.error = e]

\* init_posteriors(), events = [].
init_posteriors(c) == [arm \in { c.arm_list[k] : k \in 1..Len(c.arm_list) } |-> Prior]

\* --------------------------------------------------------------- the loop

\* x/y < p/q, x/y > p/q for pairs with positive denominators.
Less(x, y) == x[1] * y[2] < y[1] * x[2]

\* simulate_outcome(arm_key): two draws.
simulate_outcome(c, arm_key, g) ==
    [revenue |-> Lognormal(c.arms[arm_key].true_mean_revenue, g),
     churn   |-> Bernoulli(c.arms[arm_key].true_churn, RngNext(g)),
     g       |-> RngAdvance(g, 2)]

\* A cap computed from the configured churn of the baseline at every call.
InLoopChurnCapConfigured(c, posteriors) ==
    LET mr == c.max_rel_churn_increase
    IN  <<c.arms[baseline_arm].true_churn * (mr[2] + mr[1]), 100 * mr[2]>>

\* The in-loop cap: baseline posterior mean churn, or the configured churn
\* while the baseline has no data, times (1 + max_rel_churn_increase).
InLoopChurnCap(c, posteriors) ==
    LET base == posteriors[baseline_arm]
        est  == IF base.a + base.b > 2
                THEN <<base.a, base.a + base.b>>
                ELSE <<c.arms[baseline_arm].true_churn, 100>>
        mr   == c.max_rel_churn_increase
    IN  <<est[1] * (mr[2] + mr[1]), est[2] * mr[2]>>

\* np.mean(theta_samples > churn_cap) as a count of the n samples.
CountBad(theta, cap) ==
    Cardinality({ j \in DOMAIN theta : Less(cap, <<theta[j], 20>>) })

\* A comparison that still passes at prob_bad = tau.
BelowTauInclusive(bad, n, tau) == ~Less(tau, <<bad, n>>)

\* prob_bad < tau, prob_bad = bad/n.
BelowTau(bad, n, tau) == Less(<<bad, n>>, tau)

\* The guardrail scan of choose_price_arm over posteriors.items():
\* acc = [safe_arms, theta_samples, g].
RECURSIVE SafeScan(_, _, _, _, _)
SafeScan(c, posteriors, cap, k, acc) ==
    IF k > Len(c.arm_list) THEN acc
    ELSE
        LET arm == c.arm_list[k]
            p   == posteriors[arm]
        IN  IF p.a + p.b <= 2
            THEN SafeScan(c, posteriors, cap, k + 1,
                          [acc EXCEPT !.safe_arms = Append(@, arm)])
            ELSE
                LET theta == BetaArray(p.a, p.b, n_churn_samples, acc.g)
                    bad   == CountBad(theta, cap)
                IN  SafeScan(c, posteriors, cap, k + 1,
                        [safe_arms |-> IF BelowTau(bad, n_churn_samples, c.tau)
                                       THEN Append(acc.safe_arms, arm)
                                       ELSE acc.safe_arms,
                         theta_samples |-> (arm :> theta) @@ acc.theta_samples,
                         g |-> RngAdvance(acc.g, n_churn_samples)])

\* The first key of a smallest value.
FirstMin(vals) ==
    CHOOSE k \in DOMAIN vals :
        /\ \A j \in DOMAIN vals : vals[j] >= vals[k]
        /\ \A j \in DOMAIN vals : j < k => vals[j] > vals[k]

\* max(d, key=d.get): the first key, in insertion order, of a largest value.
FirstMax(vals) ==
    CHOOSE k \in DOMAIN vals :
        /\ \A j \in DOMAIN vals : vals[j] <= vals[k]
        /\ \A j \in DOMAIN vals : j < k => vals[j] < vals[k]

\* Candidates that fall back to the baseline alone when no arm is safe.
CandidatesBaselineOnly(c, safe_arms) ==
    IF safe_arms = <<>> THEN <<baseline_arm>> ELSE safe_arms

\* The candidates of the Thompson draw: the safe arms, or every arm when
\* none is safe.
Candidates(c, safe_arms) == IF safe_arms = <<>> THEN c.arm_list ELSE safe_arms

\* choose_price_arm(posteriors): the arm, the generator, and the locals.
choose_price_arm(c, posteriors, g) ==
    LET churn_cap == InLoopChurnCap(c, posteriors)
        scan == SafeScan(c, posteriors, churn_cap, 1,
                         [safe_arms |-> <<>>, theta_samples |-> NoArms, g |-> g])
        cand == Candidates(c, scan.safe_arms)
        sampled_revenue ==
            [k \in 1..Len(cand) |->
                GammaSample(posteriors[cand[k]].alpha, posteriors[cand[k]].beta,
                            RngAdvance(scan.g, k - 1))]
    IN  [arm |-> cand[FirstMax(sampled_revenue)],
         g   |-> RngAdvance(scan.g, Len(cand)),
         locals |-> [churn_cap |-> churn_cap,
                     theta_samples |-> scan.theta_samples,
                     safe_arms |-> scan.safe_arms,
                     sampled_revenue |-> sampled_revenue]]

\* A forced phase one event short.
ForcedExplorationShort(c, i) == i < Len(c.arm_list) * ForcedRounds

\* A forced phase of nine rounds per arm.
ForcedExplorationNineRounds(c, i) == i <= Len(c.arm_list) * (ForcedRounds - 1)

\* A forced phase of five rounds per arm.
ForcedExplorationFiveRounds(c, i) == i <= Len(c.arm_list) * (ForcedRounds \div 2)

\* The first len(arm_list) * 10 events are forced.
ForcedExploration(c, i) == i <= Len(c.arm_list) * ForcedRounds

\* An update that overwrites alpha with the revenue instead of adding it.
PosteriorUpdateOverwrite(p, revenue, churn) ==
    [alpha |-> revenue, beta |-> p.beta + 1,
     a |-> p.a + churn, b |-> p.b + (1 - churn), N |-> p.N + 1]

\* An update that counts a churned subscriber as retained and a retained
\* one as churned.
PosteriorUpdateSwapped(p, revenue, churn) ==
    [alpha |-> p.alpha + revenue, beta |-> p.beta + 1,
     a |-> p.a + (1 - churn), b |-> p.b + churn, N |-> p.N + 1]

\* An update that counts only the churned subscribers in N.
PosteriorUpdateCountChurn(p, revenue, churn) ==
    [alpha |-> p.alpha + revenue, beta |-> p.beta + 1,
     a |-> p.a + churn, b |-> p.b + (1 - churn), N |-> p.N + churn]

\* The conjugate update of the chosen arm's posterior.
PosteriorUpdate(p, revenue, churn) ==
    [alpha |-> p.alpha + revenue, beta |-> p.beta + 1,
     a |-> p.a + churn, b |-> p.b + (1 - churn), N |-> p.N + 1]

\* An iteration that keeps only its own event in the list.
ObserveKeepLast(c, st, i, arm_key, g, adaptive) ==
    LET out == simulate_outcome(c, arm_key, g)
        ev  == [event_id |-> i, price_arm |-> arm_key,
                price_usd |-> c.arms[arm_key].price,
                day_of_experiment |-> RandInt(out.g),
                net_revenue_30d |-> out.revenue, churn_30d |-> out.churn]
    IN  [st |-> [st EXCEPT
                    !.posteriors[arm_key] =
                        PosteriorUpdate(@, out.revenue, out.churn),
                    !.events = <<ev>>,
                    !.chose = st.chose + adaptive,
                    !.pc = IF i = c.n_events THEN "analysis" ELSE "loop"],
         g  |-> RngNext(out.g)]

\* An iteration that counts its event on every arm.
ObserveCountAll(c, st, i, arm_key, g, adaptive) ==
    LET out == simulate_outcome(c, arm_key, g)
        ev  == [event_id |-> i, price_arm |-> arm_key,
                price_usd |-> c.arms[arm_key].price,
                day_of_experiment |-> RandInt(out.g),
                net_revenue_30d |-> out.revenue, churn_30d |-> out.churn]
    IN  [st |-> [st EXCEPT
                    !.posteriors =
                        [arm \in DOMAIN st.posteriors |->
                            IF arm = arm_key
                            THEN PosteriorUpdate(st.posteriors[arm],
                                                 out.revenue, out.churn)
                            ELSE [st.posteriors[arm] EXCEPT !.N = @ + 1]],
                    !.events = Append(@, ev),
                    !.chose = st.chose + adaptive,
                    !.pc = IF i = c.n_events THEN "analysis" ELSE "loop"],
         g  |-> RngNext(out.g)]

\* The rest of one iteration once the arm is chosen: the outcome, the
\* update, and the event appended (one more draw for its day).
Observe(c, st, i, arm_key, g, adaptive) ==
    LET out == simulate_outcome(c, arm_key, g)
        ev  == [event_id |-> i, price_arm |-> arm_key,
                price_usd |-> c.arms[arm_key].price,
                day_of_experiment |-> RandInt(out.g),
                net_revenue_30d |-> out.revenue, churn_30d |-> out.churn]
    IN  [st |-> [st EXCEPT
                    !.posteriors[arm_key] =
                        PosteriorUpdate(@, out.revenue, out.churn),
                    !.events = Append(@, ev),
                    !.chose = st.chose + adaptive,
                    !.pc = IF i = c.n_events THEN "analysis" ELSE "loop"],
         g  |-> RngNext(out.g)]

\* A round-robin that starts from the second arm.
ForcedArmFromSecond(c, i) == c.arm_list[(i % Len(c.arm_list)) + 1]

\* arm_list[(i - 1) % len(arm_list)], arm_list being the keys of
\* true_price_arms in the order the mapping lists them.
ForcedArm(c, i) == c.arm_list[((i - 1) % Len(c.arm_list)) + 1]

\* Iteration i of the loop: [st, g].  With no arm no event is forced
\* (i <= 0 never holds) and the first iteration calls choose_price_arm.
LoopBody(c, st, g) ==
    LET i == Len(st.events) + 1 IN
    IF ForcedExploration(c, i)
    THEN Observe(c, st, i, ForcedArm(c, i), g, 0)
    ELSE IF baseline_arm \notin DOMAIN st.posteriors
         THEN [st |-> Raise(st, "KeyError"), g |-> g]
         ELSE LET ch == choose_price_arm(c, st.posteriors, g)
              IN  Observe(c, [st EXCEPT !.choice = ch.locals], i, ch.arm, ch.g, 1)

\* ----------------------------------------------------------- the analysis

\* The keys of true_price_arms as a set.
ArmSet(c) == { c.arm_list[k] : k \in 1..Len(c.arm_list) }

\* sort_values("price_usd") of a frame built in arm_list order: by price,
\* equal prices in insertion order.
RECURSIVE SortByPrice(_, _)
SortByPrice(c, left) ==
    IF left = <<>> THEN <<>>
    ELSE
        LET k == CHOOSE k \in DOMAIN left :
                    /\ \A j \in DOMAIN left :
                         c.arms[left[k]].price <= c.arms[left[j]].price
                    /\ \A j \in DOMAIN left :
                         j < k => c.arms[left[j]].price > c.arms[left[k]].price
        IN  <<left[k]>> \o
            SortByPrice(c, [j \in 1..(Len(left) - 1) |->
                               IF j < k THEN left[j] ELSE left[j + 1]])

\* The rows of summary_post, as arm labels in row order.
summary_post(c) == SortByPrice(c, c.arm_list)

\* posterior_mean_revenue = alpha / beta.
mean_rev(p) == <<p.alpha, p.beta>>

\* samples_mat: row k holds the n_samples Gamma draws of arm k.
SamplesMat(c, posteriors, g) ==
    [k \in 1..Len(c.arm_list) |->
        GammaArray(posteriors[c.arm_list[k]].alpha, posteriors[c.arm_list[k]].beta,
                   n_samples, RngAdvance(g, (k - 1) * n_samples))]

\* np.argmax(samples_mat, axis=0)[j]: the first row holding the largest value.
ArgMax(mat, j) ==
    CHOOSE k \in DOMAIN mat :
        /\ \A h \in DOMAIN mat : mat[h][j] <= mat[k][j]
        /\ \A h \in DOMAIN mat : h < k => mat[h][j] < mat[k][j]

\* A count that credits a tied trial to every row holding the largest value.
BestCountTies(mat, k) ==
    Cardinality({ j \in 1..n_samples : \A h \in DOMAIN mat : mat[h][j] <= mat[k][j] })

\* np.bincount(best_idx)[k].
BestCount(mat, k) == Cardinality({ j \in 1..n_samples : ArgMax(mat, j) = k })

\* np.argsort(col) of column j, ascending, equal values in row order (the
\* order among equal values never changes what WinsByMargin counts):
\* Rank(k) is the position of row k.
Rank(mat, j, k) ==
    Cardinality({ h \in DOMAIN mat :
                    \/ mat[h][j] < mat[k][j]
                    \/ (mat[h][j] = mat[k][j] /\ h <= k) })

\* order[-1] and order[-2].
OrderLast(mat, j, back) ==
    CHOOSE k \in DOMAIN mat : Rank(mat, j, k) = Len(mat) - back

\* A count that credits the last row of the sort for any lead, a lead of
\* zero included.
WinsByMarginAnyLead(mat, j, k) ==
    /\ Len(mat) >= 2
    /\ LET best   == OrderLast(mat, j, 0)
           second == OrderLast(mat, j, 1)
       IN  /\ best = k
           /\ mat[second][j] # 0
           /\ mat[best][j] - mat[second][j] >= 0

\* A count that does not skip the trials whose runner-up value is zero.
WinsByMarginNoSkip(mat, j, k) ==
    /\ Len(mat) >= 2
    /\ LET best   == OrderLast(mat, j, 0)
           second == OrderLast(mat, j, 1)
       IN  /\ best = k
           /\ (mat[best][j] - mat[second][j]) * 100 >= 3 * mat[second][j]

\* Trial j counts for row k in uplift_ge_3.
WinsByMargin(mat, j, k) ==
    /\ Len(mat) >= 2
    /\ LET best   == OrderLast(mat, j, 0)
           second == OrderLast(mat, j, 1)
       IN  /\ best = k
           /\ mat[second][j] # 0
           /\ (mat[best][j] - mat[second][j]) * 100 >= 3 * mat[second][j]

MarginCount(mat, k) ==
    Cardinality({ j \in 1..n_samples : WinsByMargin(mat, j, k) })

\* prob_df, by arm: the counts of the n_samples trials.
prob_df(c, mat) ==
    [arm \in ArmSet(c) |->
        LET k == CHOOSE k \in 1..Len(c.arm_list) : c.arm_list[k] = arm
        IN  [best |-> BestCount(mat, k), ge_3 |-> MarginCount(mat, k)]]

\* Column col of the first k events, summed over the events of arm.
RECURSIVE ColumnSum(_, _, _, _)
ColumnSum(events, arm, col, k) ==
    IF k = 0 THEN 0
    ELSE ColumnSum(events, arm, col, k - 1)
         + (IF events[k].price_arm = arm THEN events[k][col] ELSE 0)

\* summary_obs, by arm: one row per arm that has an event, with the count
\* and the two means as sum over count.
summary_obs(events) ==
    [arm \in { events[k].price_arm : k \in DOMAIN events } |->
        LET n == Cardinality({ k \in DOMAIN events : events[k].price_arm = arm })
        IN  [n_events |-> n,
             avg_revenue_30d |->
                 <<ColumnSum(events, arm, "net_revenue_30d", Len(events)), n>>,
             churn_rate_30d |->
                 <<ColumnSum(events, arm, "churn_30d", Len(events)), n>>]]

\* The rows of summary_post, by arm.
posterior_rows(c, posteriors) ==
    [arm \in DOMAIN posteriors |->
        [price_usd |-> c.arms[arm].price,
         posterior_mean_revenue |-> mean_rev(posteriors[arm]),
         posterior_mean_churn |-> <<posteriors[arm].a,
                                    posteriors[arm].a + posteriors[arm].b>>,
         n_events |-> posteriors[arm].N]]

\* An analysis that consumes the event list it summarises.
MonteCarloStepDraining(c, st, g) ==
    IF st.events = <<>>
    THEN [st |-> Raise(st, "KeyError"), g |-> g]
    ELSE [st |-> [st EXCEPT !.summary_obs = summary_obs(st.events),
                            !.summary_post = posterior_rows(c, st.posteriors),
                            !.samples_mat = SamplesMat(c, st.posteriors, g),
                            !.prob_df = prob_df(c, SamplesMat(c, st.posteriors, g)),
                            !.events = <<>>,
                            !.pc = "guardrail"],
          g  |-> RngAdvance(g, Len(c.arm_list) * n_samples)]

\* Steps 2 to 4: the observed and posterior summaries and the Monte Carlo
\* table; [st, g].  With no event the frame of events has no column and the
\* groupby raises KeyError.
MonteCarloStep(c, st, g) ==
    IF st.events = <<>>
    THEN [st |-> Raise(st, "KeyError"), g |-> g]
    ELSE [st |-> [st EXCEPT !.summary_obs = summary_obs(st.events),
                            !.summary_post = posterior_rows(c, st.posteriors),
                            !.samples_mat = SamplesMat(c, st.posteriors, g),
                            !.prob_df = prob_df(c, SamplesMat(c, st.posteriors, g)),
                            !.pc = "guardrail"],
          g  |-> RngAdvance(g, Len(c.arm_list) * n_samples)]

\* The cap of the final table: baseline posterior mean churn times
\* (1 + max_rel_churn_increase).
FinalChurnCap(c, posteriors) ==
    LET base == posteriors[baseline_arm]
        mr   == c.max_rel_churn_increase
    IN  <<base.a * (mr[2] + mr[1]), (base.a + base.b) * mr[2]>>

\* A flag that is still safe at prob_bad = tau.
IsSafeInclusive(bad, n, tau) == ~Less(tau, <<bad, n>>)

\* is_safe = prob_bad < tau.
IsSafe(bad, n, tau) == BelowTau(bad, n, tau)

\* safe_df, by arm; arm k draws after the arms before it.
safe_df(c, posteriors, g) ==
    [arm \in ArmSet(c) |->
        LET k     == CHOOSE k \in 1..Len(c.arm_list) : c.arm_list[k] = arm
            p     == posteriors[arm]
            theta == BetaArray(p.a, p.b, n_safe_samples,
                               RngAdvance(g, (k - 1) * n_safe_samples))
            bad   == CountBad(theta, FinalChurnCap(c, posteriors))
        IN  [posterior_mean_churn |-> <<p.a, p.a + p.b>>,
             prob_churn_violates_guardrail |-> <<bad, n_safe_samples>>,
             is_safe |-> IsSafe(bad, n_safe_samples, c.tau)]]

\* Step 5, the safety table; [st, g].
GuardrailStep(c, st, g) ==
    IF baseline_arm \notin DOMAIN st.posteriors
    THEN [st |-> Raise(st, "KeyError"), g |-> g]
    ELSE [st |-> [st EXCEPT !.churn_cap = FinalChurnCap(c, st.posteriors),
                            !.safe_df = safe_df(c, st.posteriors, g),
                            !.pc = "recommend"],
          g  |-> RngAdvance(g, Len(c.arm_list) * n_safe_samples)]

\* The rows of summary_post flagged safe, in row order.
safe_candidates(c, safe) == SelectSeq(summary_post(c), LAMBDA arm : safe[arm].is_safe)

\* The first row of a smallest posterior mean (an ascending sort).
TopRowAscending(rows, posteriors) ==
    rows[CHOOSE k \in DOMAIN rows :
            /\ \A j \in DOMAIN rows :
                 ~Less(mean_rev(posteriors[rows[j]]), mean_rev(posteriors[rows[k]]))
            /\ \A j \in DOMAIN rows :
                 j < k => Less(mean_rev(posteriors[rows[k]]),
                               mean_rev(posteriors[rows[j]]))]

\* sort_values("posterior_mean_revenue", ascending=False).iloc[0]: the first
\* row of a largest posterior mean.
TopRow(rows, posteriors) ==
    rows[CHOOSE k \in DOMAIN rows :
            /\ \A j \in DOMAIN rows :
                 ~Less(mean_rev(posteriors[rows[k]]), mean_rev(posteriors[rows[j]]))
            /\ \A j \in DOMAIN rows :
                 j < k => Less(mean_rev(posteriors[rows[j]]),
                               mean_rev(posteriors[rows[k]]))]

\* A recommendation that ignores the safety flags.
best_row_any(c, posteriors, safe) == TopRow(summary_post(c), posteriors)

\* best_row: the best safe candidate, or the baseline row when none is safe.
best_row(c, posteriors, safe) ==
    IF safe_candidates(c, safe) # <<>>
    THEN TopRow(safe_candidates(c, safe), posteriors)
    ELSE baseline_arm

\* A baseline taken as the first (cheapest) row of summary_post.
base_row_first(c) == summary_post(c)[1]

\* base_row: the baseline's row of summary_post.
base_row(c) == baseline_arm

\* An uplift of the baseline over the recommended arm.
UpliftPctReversed(p, base) ==
    <<(base.alpha * p.beta - p.alpha * base.beta) * 100, p.beta * base.alpha>>

\* (rev - base_rev) / base_rev * 100.0 for rev = alpha/beta.
UpliftPct(p, base) ==
    <<(p.alpha * base.beta - base.alpha * p.beta) * 100, p.beta * base.alpha>>

\* round(4) of x = num/den, in units of 0.0001, halves to the even neighbour.
Round4(x) ==
    LET n == x[1] * 10000
        q == n \div x[2]
        r == 2 * (n - q * x[2])
    IN  IF r < x[2] THEN q
        ELSE IF r > x[2] THEN q + 1
        ELSE IF q % 2 = 0 THEN q ELSE q + 1

\* Steps 5 (recommendation) and 6 (report table), and the return.
RecommendStep(c, st) ==
    LET best == best_row(c, st.posteriors, st.safe_df)
        base == st.posteriors[base_row(c)]
    IN  [st EXCEPT
            !.best_arm = best,
            !.best_price = c.arms[best].price,
            !.uplift_pct = UpliftPct(st.posteriors[best], base),
            !.prob_ge_3 = st.prob_df[best].ge_3,
            !.report_table =
                [k \in 1..Len(c.arm_list) |->
                    LET arm == summary_post(c)[k] IN
                    [price_arm |-> arm,
                     n_events |-> st.posteriors[arm].N,
                     is_safe |-> st.safe_df[arm].is_safe,
                     uplift_vs_baseline |->
                        Round4(UpliftPct(st.posteriors[arm], base))]],
            !.pc = "done"]

\* The frame once the priors and the empty event list are set up.
EnterFrame(c) ==
    [Idle EXCEPT !.posteriors = init_posteriors(c),
                 !.pc = IF c.n_events = 0 THEN "analysis" ELSE "loop"]

\* run_creator_sim_core as a function of its arguments when nothing else
\* touches the generator: the frame it ends in.
RECURSIVE RunFrom(_, _, _)
RunFrom(c, st, g) ==
    CASE st.pc = "loop" ->
            LET res == LoopBody(c, st, g) IN RunFrom(c, res.st, res.g)
      [] st.pc = "analysis" ->
            LET res == MonteCarloStep(c, st, g) IN RunFrom(c, res.st, res.g)
      [] st.pc = "guardrail" ->
            LET res == GuardrailStep(c, st, g) IN RunFrom(c, res.st, res.g)
      [] st.pc = "recommend" -> RunFrom(c, RecommendStep(c, st), g)
      [] OTHER -> st

RunAlone(c) == RunFrom(c, EnterFrame(c), np_random_seed(0, c.seed))

\* --------------------------------------------------------- the web lookup

\* Python's None and a value that is not None; a text is a sequence of
\* one-character strings.
None == <<>>
Some(v) == <<v>>

\* s.lstrip(ch), s.rstrip(ch), s.strip(ch).
RECURSIVE lstrip(_, _)
lstrip(s, ch) == IF s # <<>> /\ Head(s) = ch THEN lstrip(Tail(s), ch) ELSE s

RECURSIVE rstrip(_, _)
rstrip(s, ch) ==
    IF s # <<>> /\ s[Len(s)] = ch THEN rstrip(SubSeq(s, 1, Len(s) - 1), ch) ELSE s

strip(s, ch) == rstrip(lstrip(s, ch), ch)

\* username = handle.strip().lstrip("@").strip("/").
Username(handle) == strip(lstrip(strip(handle, " "), "@"), "/")

\* What the user can have typed in the handle box.
Handles ==
    { <<>>, <<" ">>, <<"@", "/">>, <<"/", "@">>, <<"a">>, <<"b">>,
      <<" ", "@", "a", "/">> }

\* The options of the platform selectbox.
Platforms == {"OnlyFans", "Instagram", "TikTok", "YouTube"}

\* platform.strip().lower() on the options.
platform_norm(platform) ==
    CASE platform = "OnlyFans"  -> "onlyfans"
      [] platform = "Instagram" -> "instagram"
      [] platform = "TikTok"    -> "tiktok"
      [] platform = "YouTube"   -> "youtube"

\* What the page yields once parsed: the og:title or <title> text, the
\* og:image, and each statistic the regular expressions find (None where
\* they find nothing); the media counts are found together or not at all.
Pages ==
    { [kind |-> "page", profile_name |-> n, profile_image_url |-> u,
       followers |-> f, likes |-> l, posts_count |-> p,
       photos_count |-> m, videos_count |-> m] :
        n \in {None, Some(<<"N">>)}, u \in {None, Some(<<"u">>)},
        f \in {None, Some(0), Some(2000)}, l \in {None, Some(100)},
        p \in {None, Some(5)}, m \in {None, Some(7)} }

\* requests.get or raise_for_status raised e: str(e).
HttpErrors == { [kind |-> "error", text |-> t] : t \in {"timeout", "404"} }

Responses == Pages \cup HttpErrors

\* No request was sent.
NoRequest == [kind |-> "none"]

\* The defaults used when nothing real could be parsed; engagement_rate is
\* in hundredths of a percent.
DefaultFollowers == 5000
DefaultEngagement == 350
VisitsPerFollower == 15

\* avg_views = int(followers * 0.3).
avg_views(followers) == (followers * 3) \div 10

\* The keys every fallback record carries.
Defaults(handle, profile_name) ==
    [platform |-> "OnlyFans", handle |-> handle, profile_name |-> profile_name,
     profile_image_url |-> None, followers |-> DefaultFollowers,
     likes |-> None, posts_count |-> None, photos_count |-> None,
     videos_count |-> None, avg_views |-> avg_views(DefaultFollowers),
     engagement_rate |-> DefaultEngagement,
     estimated_subscribers |-> DefaultFollowers,
     estimated_monthly_visits |-> DefaultFollowers * VisitsPerFollower]

\* make_fallback(raw_source, error): the key "error" is set only for an
\* error that is neither None nor empty.
make_fallback(username, raw_source, error) ==
    LET data == [raw_source |-> raw_source] @@ Defaults(username, username)
    IN  IF error # None /\ error[1] # ""
        THEN [error |-> error[1]] @@ data
        ELSE data

\* a or b, for a text that may be None.
OrElse(a, b) == IF a # None /\ a[1] # <<>> THEN a[1] ELSE b

\* round(likes / followers * 100, 2), in hundredths of a percent.
engagement_rate(likes, followers) ==
    (2 * likes * 10000 + followers) \div (2 * followers)

\* Step 4 of fetch_onlyfans_profile: the record built from a page that
\* shows some number.
Derived(username, page) ==
    LET followers ==
            IF page.followers # None THEN page.followers[1]
            ELSE IF page.likes # None THEN page.likes[1] * 10
            ELSE DefaultFollowers
    IN  [platform |-> "OnlyFans", handle |-> username,
         profile_name |-> OrElse(page.profile_name, username),
         profile_image_url |-> page.profile_image_url,
         followers |-> followers, likes |-> page.likes,
         posts_count |-> page.posts_count, photos_count |-> page.photos_count,
         videos_count |-> page.videos_count, avg_views |-> avg_views(followers),
         engagement_rate |->
             IF page.likes # None /\ followers > 0
             THEN engagement_rate(page.likes[1], followers)
             ELSE DefaultEngagement,
         estimated_subscribers |-> followers,
         estimated_monthly_visits |-> followers * VisitsPerFollower,
         raw_source |-> "onlyfans_meta_or_text"]

\* The page shows none of fans, likes and posts.
no_numbers_found(page) ==
    page.followers = None /\ page.likes = None /\ page.posts_count = None

\* fetch_onlyfans_profile(handle), the web answering with response.
fetch_onlyfans_profile(handle, response) ==
    LET username == Username(handle) IN
    IF username = <<>>
    THEN [raw_source |-> "onlyfans_invalid_handle_fallback",
          error |-> "Handle was empty after cleaning."]
         @@ Defaults(handle, IF handle # <<>> THEN handle
                             ELSE <<"U", "n", "k", "n", "o", "w", "n">>)
    ELSE IF response.kind = "error"
    THEN make_fallback(username, "onlyfans_http_error_fallback",
                       Some(response.text))
    ELSE IF no_numbers_found(response)
    THEN [make_fallback(username, "onlyfans_fallback_no_numbers_found", None)
            EXCEPT !.profile_name = OrElse(response.profile_name, username),
                   !.profile_image_url = response.profile_image_url]
    ELSE Derived(username, response)

\* fetch_creator_profile_from_web(handle, platform): what it raises, or
\* the record it returns.
fetch_creator_profile_from_web(handle, platform, response) ==
    IF handle = <<>>
    THEN [raised |-> "ValueError", value |-> None]
    ELSE IF platform_norm(platform) = "onlyfans"
    THEN [raised |-> "none",
          value |-> Some(fetch_onlyfans_profile(handle, response))]
    ELSE [raised |-> "NotImplementedError", value |-> None]

\* The lookup sends a request to the web.
SendsRequest(handle, platform) ==
    /\ handle # <<>>
    /\ platform_norm(platform) = "onlyfans"
    /\ Username(handle) # <<>>

\* The dashboard before any click: web_profile is None.
NoLookup ==
    [handle |-> <<>>, platform |-> "OnlyFans", response |-> NoRequest,
     web_profile |-> None, sidebar |-> "none"]

\* ------------------------------------------------------------ the actions

Active(r) == run[r].pc \in {"loop", "analysis", "guardrail", "recommend"}

\* The call: np.random.seed(seed), the priors, the empty event list.
Enter(r) ==
    /\ run[r].pc = "idle"
    /\ np_random' = np_random_seed(np_random, cfg[r].seed)
    /\ run' = [run EXCEPT ![r] = EnterFrame(cfg[r])]
    /\ UNCHANGED <<cfg, app>>

\* One iteration of the experiment loop.
LoopIteration(r) ==
    /\ run[r].pc = "loop"
    /\ LET res == LoopBody(cfg[r], run[r], np_random)
       IN  /\ run' = [run EXCEPT ![r] = res.st]
           /\ np_random' = res.g
    /\ UNCHANGED <<cfg, app>>

\* The summaries and the Monte Carlo table.
MonteCarlo(r) ==
    /\ run[r].pc = "analysis"
    /\ LET res == MonteCarloStep(cfg[r], run[r], np_random)
       IN  /\ run' = [run EXCEPT ![r] = res.st]
           /\ np_random' = res.g
    /\ UNCHANGED <<cfg, app>>

\* The final safety table.
Guardrail(r) ==
    /\ run[r].pc = "guardrail"
    /\ LET res == GuardrailStep(cfg[r], run[r], np_random)
       IN  /\ run' = [run EXCEPT ![r] = res.st]
           /\ np_random' = res.g
    /\ UNCHANGED <<cfg, app>>

\* The recommendation, the report table and the return.
Recommend(r) ==
    /\ run[r].pc = "recommend"
    /\ run' = [run EXCEPT ![r] = RecommendStep(cfg[r], run[r])]
    /\ UNCHANGED <<cfg, np_random, app>>

\* The host draws from the global generator outside a run
\* (generate_synthetic_cohort).
HostDraw ==
    /\ \A r \in Runs : ~Active(r)
    /\ np_random' = RngNext(np_random)
    /\ UNCHANGED <<cfg, run, app>>

\* Invocations one after the other: the second call replays the first
\* call's arguments, with the same seed or with the next one, from whatever
\* state the generator is in.
Init ==
    /\ \E c \in Configs :
         \E s \in {c.seed, (c.seed + 1) % (MaxSeed + 1)} :
            cfg = [r \in Runs |-> IF r = 1 THEN c ELSE [c EXCEPT !.seed = s]]
    /\ run = [r \in Runs |-> Idle]
    /\ np_random \in 0..(RngMod - 1)
    /\ app = NoLookup

\* Invocation r starts once the invocations before it have returned or raised.
Sequential(r) == \A q \in Runs : q < r => run[q].pc \in {"done", "raised"}

Next ==
    \/ \E r \in Runs : Sequential(r) /\ Enter(r)
    \/ \E r \in Runs : LoopIteration(r)
    \/ \E r \in Runs : MonteCarlo(r)
    \/ \E r \in Runs : Guardrail(r)
    \/ \E r \in Runs : Recommend(r)
    \/ HostDraw

Spec == Init /\ [][Next]_vars

\* Two invocations in one host, their steps interleaved (one thread each),
\* on short runs with seeds of their own.
ConcConfigs ==
    { c \in ConfigsOf(<<"A", "B">>) :
        c.n_events = 3 /\ c.arms = TypicalArms /\ c.tau = <<9, 10>> }

InitConc ==
    /\ cfg \in [Runs -> ConcConfigs]
    /\ run = [r \in Runs |-> Idle]
    /\ np_random \in 0..(RngMod - 1)
    /\ app = NoLookup

NextConc ==
    \/ \E r \in Runs : Enter(r)
    \/ \E r \in Runs : LoopIteration(r)
    \/ \E r \in Runs : MonteCarlo(r)
    \/ \E r \in Runs : Guardrail(r)
    \/ \E r \in Runs : Recommend(r)
    \/ HostDraw

SpecConc == InitConc /\ [][NextConc]_vars

\* A handler that forgets the stored profile when the lookup raises.
lookup_clicked_clearing(session, handle, platform, response) ==
    LET res == fetch_creator_profile_from_web(handle, platform, response)
    IN  [handle |-> handle, platform |-> platform, response |-> response,
         web_profile |-> res.value,
         sidebar |-> IF res.raised = "none" THEN "success" ELSE res.raised]

\* The handler of the button: it calls the dispatcher; a record returned
\* replaces web_profile and shows the success message, an exception shows
\* its message and leaves web_profile as it was.
lookup_clicked(session, handle, platform, response) ==
    LET res == fetch_creator_profile_from_web(handle, platform, response)
    IN  [handle |-> handle, platform |-> platform, response |-> response,
         web_profile |-> IF res.raised = "none"
                         THEN res.value ELSE session.web_profile,
         sidebar |-> IF res.raised = "none" THEN "success" ELSE res.raised]

\* A click on "Lookup from web" with some handle typed, some platform
\* selected, and the web answering in some way when it is asked.
LookupFromWeb ==
    \E handle \in Handles, platform \in Platforms :
        \E response \in (IF SendsRequest(handle, platform)
                         THEN Responses ELSE {NoRequest}) :
            /\ app' = lookup_clicked(app, handle, platform, response)
            /\ UNCHANGED <<cfg, run, np_random>>

\* The dashboard alone: no simulation is running.
InitLookup ==
    /\ cfg = [r \in Runs |-> CHOOSE c \in ConcConfigs : c.seed = 0]
    /\ run = [r \in Runs |-> Idle]
    /\ np_random = 0
    /\ app = NoLookup

NextLookup == LookupFromWeb

SpecLookup == InitLookup /\ [][NextLookup]_vars

\* ------------------------------------------------------------- the claims

Returned(r) == run[r].pc = "done"
Ended(r) == run[r].pc \in {"done", "raised"}

\* C1. Determinism: two invocations with the same arguments end in the same
\* frame (events, posteriors, tables, recommendation, uplift, confidence),
\* whatever state the generator was in before each.
Determinism ==
    (cfg[1] = cfg[2] /\ Ended(1) /\ Ended(2)) => run[1] = run[2]

\* Both invocations returned after adaptive selections.
DeterminismWitness ==
    /\ cfg[1] = cfg[2]
    /\ Returned(1) /\ Returned(2)
    /\ run[2].chose > 0

\* C2. Run isolation: a run interleaved with another run of the same host
\* ends as it ends when executed alone.
RunIsolation == \A r \in Runs : Ended(r) => run[r] = RunAlone(cfg[r])

NumArms(r) == Len(cfg[r].arm_list)

\* C3. Forced exploration coverage: with n_events >= 10 * |arms|, once the
\* first 10 * |arms| events are processed every arm has N = 10.
ForcedCoverage ==
    \A r \in Runs :
        (/\ run[r].pc # "idle"
         /\ cfg[r].n_events >= ForcedRounds * NumArms(r)
         /\ Len(run[r].events) = ForcedRounds * NumArms(r))
        => \A arm \in DOMAIN run[r].posteriors : run[r].posteriors[arm].N = 10

\* A three-arm run right after its thirtieth event, more events to come.
ForcedCoverageWitness ==
    \E r \in Runs :
        /\ NumArms(r) = 3
        /\ run[r].pc = "loop"
        /\ Len(run[r].events) = ForcedRounds * NumArms(r)

\* C4. Posterior monotonicity: no step lowers alpha, beta, a or b of any arm.
PosteriorMonotone ==
    [][\A r \in Runs :
         \A arm \in DOMAIN run[r].posteriors \cap DOMAIN run'[r].posteriors :
            /\ run'[r].posteriors[arm].alpha >= run[r].posteriors[arm].alpha
            /\ run'[r].posteriors[arm].beta >= run[r].posteriors[arm].beta
            /\ run'[r].posteriors[arm].a >= run[r].posteriors[arm].a
            /\ run'[r].posteriors[arm].b >= run[r].posteriors[arm].b]_vars

\* An arm updated by churned and by retained subscribers, in the adaptive phase.
PosteriorMonotoneWitness ==
    \E r \in Runs :
        /\ run[r].chose > 0
        /\ \E arm \in DOMAIN run[r].posteriors :
             run[r].posteriors[arm].a > 1 /\ run[r].posteriors[arm].b > 1

\* The safety table is built.
HasSafeTable(r) == run[r].pc \in {"recommend", "done"}

\* C5. Guardrail consistency: a row is flagged safe exactly when its
\* reported probability of violating the guardrail is below tau.
GuardrailConsistency ==
    \A r \in Runs : HasSafeTable(r) =>
        \A arm \in DOMAIN run[r].safe_df :
            run[r].safe_df[arm].is_safe <=>
                Less(run[r].safe_df[arm].prob_churn_violates_guardrail, cfg[r].tau)

\* A table with a safe row and with an unsafe row whose probability equals tau.
GuardrailConsistencyWitness ==
    \E r \in Runs :
        /\ Returned(r)
        /\ \E arm \in DOMAIN run[r].safe_df : run[r].safe_df[arm].is_safe
        /\ \E arm \in DOMAIN run[r].safe_df :
             /\ ~run[r].safe_df[arm].is_safe
             /\ run[r].safe_df[arm].prob_churn_violates_guardrail[1] * cfg[r].tau[2]
                  = cfg[r].tau[1] * run[r].safe_df[arm].prob_churn_violates_guardrail[2]

SafeFlagged(r) == { arm \in DOMAIN run[r].safe_df : run[r].safe_df[arm].is_safe }

\* C6. Recommendation rule: with a safe-flagged arm, the recommended arm is
\* safe-flagged and no safe-flagged arm has a higher posterior mean revenue;
\* with none, the recommended arm is the baseline.
RecommendationRule ==
    \A r \in Runs : Returned(r) =>
        IF SafeFlagged(r) # {}
        THEN /\ run[r].best_arm \in SafeFlagged(r)
             /\ \A arm \in SafeFlagged(r) :
                  ~Less(mean_rev(run[r].posteriors[run[r].best_arm]),
                        mean_rev(run[r].posteriors[arm]))
        ELSE run[r].best_arm = baseline_arm

\* A returned run whose best arm by posterior mean is flagged unsafe while
\* another arm is safe.
RecommendationRuleWitness ==
    \E r \in Runs :
        /\ Returned(r)
        /\ SafeFlagged(r) # {}
        /\ \E arm \in DOMAIN run[r].safe_df \ SafeFlagged(r) :
             Less(mean_rev(run[r].posteriors[run[r].best_arm]),
                  mean_rev(run[r].posteriors[arm]))

\* A returned run with no arm flagged safe.
NoSafeArmWitness == \E r \in Runs : Returned(r) /\ SafeFlagged(r) = {}


\* C7 as stated: whenever the recommended arm is the baseline, every other
\* arm is flagged unsafe.
BaselineOnlyIfOthersUnsafe ==
    \A r \in Runs : (Returned(r) /\ run[r].best_arm = baseline_arm) =>
        \A arm \in DOMAIN run[r].safe_df \ {baseline_arm} :
            ~run[r].safe_df[arm].is_safe

\* C7 as amended: whenever the recommended arm is the baseline, either no
\* arm is flagged safe, or the baseline is flagged safe and no safe-flagged
\* arm has a higher posterior mean revenue.
BaselineOnlyIfBestSafe ==
    \A r \in Runs : (Returned(r) /\ run[r].best_arm = baseline_arm) =>
        \/ SafeFlagged(r) = {}
        \/ /\ baseline_arm \in SafeFlagged(r)
           /\ \A arm \in SafeFlagged(r) :
                ~Less(mean_rev(run[r].posteriors[baseline_arm]),
                      mean_rev(run[r].posteriors[arm]))

\* The baseline recommended while another arm is flagged safe.
BaselineOnlyIfBestSafeWitness ==
    \E r \in Runs :
        /\ Returned(r)
        /\ run[r].best_arm = baseline_arm
        /\ SafeFlagged(r) \ {baseline_arm} # {}

RECURSIVE SumTo(_, _)
SumTo(f, k) == IF k = 0 THEN 0 ELSE f[k] + SumTo(f, k - 1)

\* The Monte Carlo table is built.
HasProbTable(r) == run[r].pc \in {"guardrail", "recommend", "done"}

\* The winning counts of the arms, summed.
BestTotal(r) ==
    SumTo([k \in 1..NumArms(r) |-> run[r].prob_df[cfg[r].arm_list[k]].best],
          NumArms(r))

\* C8. Probability mass: the winning counts of the arms sum to the number of
\* trials, so the prob_arm_is_best values sum to 1.
ProbabilityMass == \A r \in Runs : HasProbTable(r) => BestTotal(r) = n_samples

\* A table in which two arms each won a trial.
ProbabilityMassWitness ==
    \E r \in Runs :
        /\ HasProbTable(r)
        /\ Cardinality({ arm \in DOMAIN run[r].prob_df :
                            run[r].prob_df[arm].best > 0 }) >= 2

\* C9. Baseline uplift sanity: the baseline's row of the report table has
\* uplift 0, and a recommended baseline has uplift_pct 0.
BaselineUpliftZero ==
    \A r \in Runs : Returned(r) =>
        /\ \A k \in DOMAIN run[r].report_table :
             run[r].report_table[k].price_arm = baseline_arm
                => run[r].report_table[k].uplift_vs_baseline = 0
        /\ run[r].best_arm = baseline_arm => run[r].uplift_pct[1] = 0

\* The baseline recommended, in a report whose first row is another arm with
\* another posterior mean.
BaselineUpliftZeroWitness ==
    \E r \in Runs :
        /\ Returned(r)
        /\ run[r].best_arm = baseline_arm
        /\ run[r].report_table[1].price_arm # baseline_arm
        /\ run[r].report_table[1].uplift_vs_baseline # 0

\* C10 as stated: a run given fewer than 2 arms is rejected: it processes no
\* event and returns no result.
FewArmsRejected ==
    \A r \in Runs : NumArms(r) < 2 =>
        /\ run[r].events = <<>>
        /\ ~Returned(r)


\* C11 as stated: a run whose n_events is smaller than 10 * |arms| is
\* rejected: it processes no event and returns no result.
ShortRunRejected ==
    \A r \in Runs : cfg[r].n_events < ForcedRounds * NumArms(r) =>
        /\ run[r].events = <<>>
        /\ ~Returned(r)

\* C12 as stated: a run whose arms lack the baseline label fails before any
\* simulation: no event is simulated and no posterior leaves its prior.
MissingBaselineFailsFast ==
    \A r \in Runs : baseline_arm \notin ArmSet(cfg[r]) =>
        /\ run[r].events = <<>>
        /\ \A arm \in DOMAIN run[r].posteriors : run[r].posteriors[arm] = Prior
        /\ ~Returned(r)


\* n_events is exactly the length of the forced exploration.
ExactlyForced(r) == cfg[r].n_events = ForcedRounds * NumArms(r)

\* No error so far, no call of choose_price_arm, and ten events on every arm
\* once the run has ended.
ForcedOnlyOutcome(r) ==
    /\ run[r].pc # "raised"
    /\ run[r].chose = 0
    /\ Ended(r) =>
          \A arm \in DOMAIN run[r].posteriors : run[r].posteriors[arm].N = 10

Analysed(c, st, g) == MonteCarloStep(c, [st EXCEPT !.pc = "analysis"], g).st

EventLogAppendOnly ==
    [][\A r \in Runs :
          LET old == run[r].events
              new == run'[r].events
          IN  /\ \A k \in 1..Len(old) : k <= Len(new) /\ new[k] = old[k]
              /\ \A k \in 1..Len(new) : new[k].event_id = k
              /\ IF run[r].pc = "loop" /\ run'[r].pc \in {"loop", "analysis"}
                 THEN Len(new) = Len(old) + 1
                 ELSE new = old]_vars

\* A returned run whose list holds events of both phases, numbered in order.
EventLogAppendOnlyWitness ==
    \E r \in Runs :
        /\ Returned(r)
        /\ run[r].chose > 0
        /\ Len(run[r].events) = cfg[r].n_events
        /\ run[r].events[Len(run[r].events)].event_id = cfg[r].n_events


\* C17. Forced exploration order: event i <= 10 * |arms| goes to the arm at
\* position (i - 1) mod |arms| of the arm list (counted from 0), whatever the
\* seed, the generator, the posteriors and the guardrail parameters;
\* choose_price_arm is called for event 10 * |arms| + 1 and every later one,
\* and for no earlier one.
ForcedOrder ==
    \A r \in Runs :
        LET n      == NumArms(r)
            events == run[r].events
        IN  /\ \A i \in 1..Len(events) :
                  i <= ForcedRounds * n =>
                      events[i].price_arm = cfg[r].arm_list[((i - 1) % n) + 1]
            /\ run[r].chose = IF Len(events) > ForcedRounds * n
                              THEN Len(events) - ForcedRounds * n
                              ELSE 0
            /\ Len(events) <= ForcedRounds * n => run[r].choice = NoChoice

\* A three-arm run past its forced phase, whose adaptive phase has put two
\* events in a row on one arm.
ForcedOrderWitness ==
    \E r \in Runs :
        LET events == run[r].events
        IN  /\ NumArms(r) = 3
            /\ Len(events) = ForcedRounds * 3 + 2
            /\ events[ForcedRounds * 3 + 1].price_arm
                   = events[ForcedRounds * 3 + 2].price_arm


\* C18. Posterior update rule: a step that appends an event of arm k with
\* revenue r and churn flag c takes arm k's posterior from
\* (alpha, beta, a, b, N) to (alpha + r, beta + 1, a + c, b + 1 - c, N + 1)
\* and leaves every other arm's posterior as it was, in the forced and in the
\* adaptive phase alike.
PosteriorUpdateRule ==
    [][\A r \in Runs :
          Len(run'[r].events) = Len(run[r].events) + 1 =>
              LET ev  == run'[r].events[Len(run'[r].events)]
                  k   == ev.price_arm
                  old == run[r].posteriors
                  new == run'[r].posteriors
              IN  /\ DOMAIN new = DOMAIN old
                  /\ new[k].alpha = old[k].alpha + ev.net_revenue_30d
                  /\ new[k].beta = old[k].beta + 1
                  /\ new[k].a = old[k].a + ev.churn_30d
                  /\ new[k].b = old[k].b + (1 - ev.churn_30d)
                  /\ new[k].N = old[k].N + 1
                  /\ \A arm \in DOMAIN old : arm # k => new[arm] = old[arm]]_vars

\* A run that has recorded a churned and a retained subscriber on one arm,
\* the later of them in the adaptive phase.
PosteriorUpdateRuleWitness ==
    \E r \in Runs :
        LET events == run[r].events
        IN  /\ run[r].chose > 0
            /\ \E i \in DOMAIN events :
                  /\ events[i].price_arm = events[Len(events)].price_arm
                  /\ events[i].churn_30d = 1
                  /\ events[Len(events)].churn_30d = 0


\* Run r takes an adaptive decision in this step.
Decides(r) == run'[r].chose = run[r].chose + 1

\* C19. In-loop guardrail cap: at each adaptive decision the cap is the
\* baseline's posterior mean churn a/(a+b) times
\* (1 + max_rel_churn_increase), the configured true_churn standing in for
\* the mean when the baseline's a + b is below 2.
InLoopCapRule ==
    [][\A r \in Runs :
          Decides(r) =>
              LET base == run[r].posteriors[baseline_arm]
                  mr   == cfg[r].max_rel_churn_increase
                  est  == IF base.a + base.b < 2
                          THEN <<cfg[r].arms[baseline_arm].true_churn, 100>>
                          ELSE <<base.a, base.a + base.b>>
                  cap  == run'[r].choice.churn_cap
              IN  cap[1] * est[2] * mr[2] = est[1] * (mr[2] + mr[1]) * cap[2]]_vars

\* A run after two decisions, the baseline's churn count having moved
\* between them.
InLoopCapRuleWitness ==
    \E r \in Runs :
        LET events == run[r].events
        IN  /\ run[r].chose = 2
            /\ events[Len(events) - 1].price_arm = baseline_arm
            /\ events[Len(events) - 1].churn_30d = 1
            /\ run[r].choice.churn_cap[1] > 0

\* arm is in the safe set of the last decision of frame st.
InSafeSet(st, arm) ==
    \E j \in DOMAIN st.choice.safe_arms : st.choice.safe_arms[j] = arm

\* The number of samples of arm, in the last decision of frame st, that
\* are strictly above that decision's cap.
AboveCap(st, arm) ==
    LET theta == st.choice.theta_samples[arm]
        cap   == st.choice.churn_cap
    IN  Cardinality({ j \in DOMAIN theta : theta[j] * cap[2] > cap[1] * 20 })

\* C20. In-loop safety rule: at each adaptive decision an arm with
\* a + b <= 2 is in the safe set; any other arm has n_churn_samples Beta
\* samples drawn and is in the safe set exactly when the fraction of them
\* strictly above the cap is strictly below tau.
InLoopSafetyRule ==
    [][\A r \in Runs :
          Decides(r) =>
              \A arm \in ArmSet(cfg[r]) :
                  LET p == run[r].posteriors[arm]
                  IN  IF p.a + p.b <= 2
                      THEN InSafeSet(run'[r], arm)
                      ELSE /\ arm \in DOMAIN run'[r].choice.theta_samples
                           /\ Len(run'[r].choice.theta_samples[arm]) = n_churn_samples
                           /\ InSafeSet(run'[r], arm) <=>
                                 AboveCap(run'[r], arm) * cfg[r].tau[2]
                                     < cfg[r].tau[1] * n_churn_samples]_vars

\* A decision where one arm's fraction above the cap equals tau and the arm
\* is left out of the safe set, while another arm is in it.
InLoopSafetyRuleWitness ==
    \E r \in Runs :
        /\ run[r].chose > 0
        /\ \E arm \in DOMAIN run[r].choice.theta_samples :
              /\ AboveCap(run[r], arm) * cfg[r].tau[2]
                     = cfg[r].tau[1] * Len(run[r].choice.theta_samples[arm])
              /\ ~InSafeSet(run[r], arm)
        /\ run[r].choice.safe_arms # <<>>


\* The last click called fetch_onlyfans_profile.
Fetched ==
    /\ app.sidebar # "none"
    /\ app.handle # <<>>
    /\ platform_norm(app.platform) = "onlyfans"

\* The fetch of the last click failed: the handle was empty once cleaned,
\* the request raised, or the page showed no number.
FetchFailed ==
    /\ Fetched
    /\ \/ Username(app.handle) = <<>>
       \/ app.response.kind = "error"
       \/ app.response.kind = "page" /\ no_numbers_found(app.response)

\* C16 as stated: fetch_onlyfans_profile never raises, and on any failure it
\* returns the default values with both an "error" text and a "raw_source"
\* flag.
FallbackCarriesError ==
    /\ Fetched => app.sidebar = "success" /\ app.web_profile # None
    /\ FetchFailed =>
          LET profile == app.web_profile[1]
          IN  /\ profile.followers = DefaultFollowers
              /\ profile.engagement_rate = DefaultEngagement
              /\ "raw_source" \in DOMAIN profile
              /\ "error" \in DOMAIN profile


\* The arm of the last event of run r after this step.
Selected(r) == run'[r].events[Len(run'[r].events)].price_arm

\* C21. Fail-open: at each adaptive decision one revenue sample is drawn
\* per candidate and there is at least one candidate; when the scan judged
\* no arm safe the candidates are all the arms, in the order of the arm list;
\* the event goes to one configured arm and the step does not raise.
FailOpen ==
    [][\A r \in Runs :
          Decides(r) =>
              LET ch == run'[r].choice
              IN  /\ Len(ch.sampled_revenue) >= 1
                  /\ ch.safe_arms = <<>> =>
                        Len(ch.sampled_revenue) = NumArms(r)
                  /\ Len(run'[r].events) = Len(run[r].events) + 1
                  /\ Selected(r) \in ArmSet(cfg[r])
                  /\ run'[r].pc # "raised"]_vars

\* A decision of a three-arm run where the scan judged no arm safe, and the
\* event went to an arm other than the baseline.
FailOpenWitness ==
    \E r \in Runs :
        /\ run[r].chose > 0
        /\ NumArms(r) = 3
        /\ run[r].choice.safe_arms = <<>>
        /\ run[r].events[Len(run[r].events)].price_arm # baseline_arm


\* C22. Guardrailed Thompson selection: at an adaptive decision where the
\* scan judged some arm safe, one revenue sample is drawn per safe arm and
\* none for any other arm, the selected arm is a safe arm, and its sample
\* is at least the sample of every safe arm.
GuardrailedThompson ==
    [][\A r \in Runs :
          (Decides(r) /\ run'[r].choice.safe_arms # <<>>) =>
              LET ch == run'[r].choice
              IN  /\ DOMAIN ch.sampled_revenue = DOMAIN ch.safe_arms
                  /\ \E k \in DOMAIN ch.safe_arms :
                        /\ ch.safe_arms[k] = Selected(r)
                        /\ \A j \in DOMAIN ch.safe_arms :
                              ch.sampled_revenue[j] <= ch.sampled_revenue[k]]_vars

\* A decision of a three-arm run where two arms were judged safe and one was
\* not, and the second safe arm drew the strictly larger sample and was
\* selected.
GuardrailedThompsonWitness ==
    \E r \in Runs :
        LET ch == run[r].choice
        IN  /\ run[r].chose > 0
            /\ NumArms(r) = 3
            /\ Len(ch.safe_arms) = 2
            /\ ch.sampled_revenue[1] < ch.sampled_revenue[2]
            /\ run[r].events[Len(run[r].events)].price_arm = ch.safe_arms[2]


\* The next iteration of run r calls choose_price_arm.
AboutToChoose(r) ==
    /\ run[r].pc = "loop"
    /\ ~ForcedExploration(cfg[r], Len(run[r].events) + 1)

\* C23. Non-degenerate posteriors before adaptive selection: whenever
\* choose_price_arm is about to be called every arm has N >= 10 and
\* a + b > 2, and the call that follows draws Beta samples for every arm
\* (no arm is exempted) and computes its cap from the baseline's posterior
\* mean (the configured true_churn is not used).
NonDegeneratePosteriors ==
    [][\A r \in Runs :
          /\ AboutToChoose(r) =>
                \A arm \in DOMAIN run[r].posteriors :
                    /\ run[r].posteriors[arm].N >= 10
                    /\ run[r].posteriors[arm].a + run[r].posteriors[arm].b > 2
          /\ Decides(r) =>
                LET base == run[r].posteriors[baseline_arm]
                    mr   == cfg[r].max_rel_churn_increase
                    cap  == run'[r].choice.churn_cap
                IN  /\ AboutToChoose(r)
                    /\ DOMAIN run'[r].choice.theta_samples = ArmSet(cfg[r])
                    /\ cap[1] * (base.a + base.b) * mr[2]
                           = base.a * (mr[2] + mr[1]) * cap[2]]_vars

\* A run about to take its second decision, its first having raised one
\* arm's count to 11.
NonDegeneratePosteriorsWitness ==
    \E r \in Runs :
        /\ AboutToChoose(r)
        /\ run[r].chose = 1
        /\ NumArms(r) >= 2
        /\ \E arm \in DOMAIN run[r].posteriors : run[r].posteriors[arm].N = 11


\* The position of arm in the arm list of run r.
RowOf(r, arm) == CHOOSE k \in 1..NumArms(r) : cfg[r].arm_list[k] = arm

\* The runner-up value of trial j when row k wins it: the largest value
\* among the other rows.
RunnerUp(mat, j, k) ==
    LET others == { mat[h][j] : h \in DOMAIN mat \ {k} }
    IN  CHOOSE v \in others : \A w \in others : w <= v

\* Row k holds the largest value of trial j, the runner-up value is not
\* zero, and the relative margin is at least 3%.
MaterialWin(mat, j, k) ==
    /\ Len(mat) >= 2
    /\ \A h \in DOMAIN mat : mat[h][j] <= mat[k][j]
    /\ RunnerUp(mat, j, k) # 0
    /\ (mat[k][j] - RunnerUp(mat, j, k)) * 100 >= 3 * RunnerUp(mat, j, k)

\* C24. Material-uplift probability: an arm's ">= 3% better than
\* runner-up" count is the number of the n_samples trials in which the arm
\* holds the largest sample and (best - second) / second >= 0.03; a trial
\* whose top two values tie, or whose runner-up value is zero, counts for no
\* arm and stays in the denominator n_samples.
MaterialUplift ==
    \A r \in Runs : HasProbTable(r) =>
        /\ Len(run[r].samples_mat) = NumArms(r)
        /\ \A k \in 1..NumArms(r) : Len(run[r].samples_mat[k]) = n_samples
        /\ \A arm \in ArmSet(cfg[r]) :
              run[r].prob_df[arm].ge_3 =
                  Cardinality({ j \in 1..n_samples :
                      MaterialWin(run[r].samples_mat, j, RowOf(r, arm)) })
        /\ run[r].pc = "done" =>
              run[r].prob_ge_3 = run[r].prob_df[run[r].best_arm].ge_3

\* A table with a trial won by a 3% margin, a trial whose top two values
\* tie and a trial whose runner-up value is zero under a positive winner.
MaterialUpliftWitness ==
    \E r \in Runs :
        LET mat == run[r].samples_mat
        IN  /\ HasProbTable(r)
            /\ NumArms(r) = 2
            /\ \E j \in 1..n_samples : MaterialWin(mat, j, 1) \/ MaterialWin(mat, j, 2)
            /\ \E j \in 1..n_samples : mat[1][j] = mat[2][j]
            /\ \E j \in 1..n_samples :
                  \/ mat[1][j] = 0 /\ mat[2][j] > 0
                  \/ mat[2][j] = 0 /\ mat[1][j] > 0


\* x/y = p/q for pairs with positive denominators.
SameRatio(x, y) == x[1] * y[2] = y[1] * x[2]

\* C25 as stated: the cap of the final safety table equals the cap
\* choose_price_arm would compute from the final posteriors, the fallback to
\* the configured true_churn included.
FinalCapAsInLoop ==
    \A r \in Runs : HasSafeTable(r) =>
        SameRatio(run[r].churn_cap, InLoopChurnCap(cfg[r], run[r].posteriors))


\* The events of every arm, summed over the first k arms of run r.
RECURSIVE TotalN(_, _)
TotalN(r, k) ==
    IF k = 0 THEN 0
    ELSE TotalN(r, k - 1) + run[r].posteriors[cfg[r].arm_list[k]].N

\* C26. Evidence-count invariant: from the prior (1, 1, 1, 1, 0) on, every
\* arm has beta = 1 + N, a + b = 2 + N, a >= 1 and b >= 1, and the N of the
\* arms sum to the number of events in the list (n_events once the loop is
\* over).
EvidenceCount ==
    \A r \in Runs : run[r].pc # "idle" =>
        /\ \A arm \in DOMAIN run[r].posteriors :
              LET p == run[r].posteriors[arm]
              IN  /\ p.beta = 1 + p.N
                  /\ p.a + p.b = 2 + p.N
                  /\ p.a >= 1
                  /\ p.b >= 1
        /\ TotalN(r, NumArms(r)) = Len(run[r].events)
        /\ run[r].pc \in {"analysis", "guardrail", "recommend", "done"} =>
              Len(run[r].events) = cfg[r].n_events

\* A returned three-arm run with adaptive events, the arms' counts unequal,
\* one arm with a churned and a retained subscriber.
EvidenceCountWitness ==
    \E r \in Runs :
        /\ Returned(r)
        /\ NumArms(r) = 3
        /\ run[r].chose = 2
        /\ \E arm \in DOMAIN run[r].posteriors :
              /\ run[r].posteriors[arm].N = 12
              /\ run[r].posteriors[arm].a > 1
              /\ run[r].posteriors[arm].b > 1


\* C27. Frame of the posterior update: a step that appends an event changes
\* the posterior of that event's arm and of no other arm; a step of a run
\* that appends no event, a raising call of choose_price_arm included,
\* changes no posterior; an adaptive step changes the chosen arm's record by
\* the update of its event and nothing more; and no step changes the arm
\* list or an arm's price, true_mean_revenue or true_churn.
UpdateFrame ==
    [][\A r \in Runs :
          /\ cfg'[r].arms = cfg[r].arms
          /\ cfg'[r].arm_list = cfg[r].arm_list
          /\ run[r].pc # "idle" =>
                IF Len(run'[r].events) = Len(run[r].events) + 1
                THEN /\ DOMAIN run'[r].posteriors = DOMAIN run[r].posteriors
                     /\ \A arm \in DOMAIN run[r].posteriors \ {Selected(r)} :
                           run'[r].posteriors[arm] = run[r].posteriors[arm]
                     /\ run'[r].posteriors[Selected(r)] # run[r].posteriors[Selected(r)]
                     /\ Decides(r) =>
                           LET ev == run'[r].events[Len(run'[r].events)]
                           IN  run'[r].posteriors[Selected(r)] =
                                   PosteriorUpdate(run[r].posteriors[Selected(r)],
                                                   ev.net_revenue_30d, ev.churn_30d)
                ELSE run'[r].posteriors = run[r].posteriors]_vars

\* A three-arm run after an adaptive event on its last arm, the first two
\* arms still at their ten forced events.
UpdateFrameWitness ==
    \E r \in Runs :
        /\ NumArms(r) = 3
        /\ run[r].chose = 1
        /\ run[r].posteriors[cfg[r].arm_list[3]].N = 11
        /\ run[r].posteriors[cfg[r].arm_list[1]].N = 10
        /\ run[r].posteriors[cfg[r].arm_list[2]].N = 10


\* The ">= 3% better" counts of the arms, summed.
MarginTotal(r) ==
    SumTo([k \in 1..NumArms(r) |-> run[r].prob_df[cfg[r].arm_list[k]].ge_3],
          NumArms(r))

\* C28. For every arm the ">= 3% better than runner-up" count is at most
\* its winning count, and the ">= 3% better" counts of all arms sum to at
\* most the number of trials: a trial credited to an arm by the sorted order
\* is a trial the argmax gives to that arm.
MarginWithinBest ==
    \A r \in Runs : HasProbTable(r) =>
        /\ \A arm \in DOMAIN run[r].prob_df :
              run[r].prob_df[arm].ge_3 <= run[r].prob_df[arm].best
        /\ MarginTotal(r) <= n_samples
        /\ \A k \in 1..NumArms(r) : \A j \in 1..n_samples :
              WinsByMargin(run[r].samples_mat, j, k)
                  => ArgMax(run[r].samples_mat, j) = k

\* A table with a trial whose top two values tie, which the sort and the
\* argmax give to different rows, and an arm with a trial won by 3%.
MarginWithinBestWitness ==
    \E r \in Runs :
        LET mat == run[r].samples_mat
        IN  /\ HasProbTable(r)
            /\ NumArms(r) >= 2
            /\ \E j \in 1..n_samples :
                  /\ OrderLast(mat, j, 0) # ArgMax(mat, j)
                  /\ mat[OrderLast(mat, j, 1)][j] # 0
            /\ \E arm \in DOMAIN run[r].prob_df : run[r].prob_df[arm].ge_3 > 0


\* C29. Sign of the reported uplift: with the baseline flagged is_safe the
\* returned uplift_pct is >= 0 and the recommended arm's posterior mean
\* revenue is at least the baseline's; a negative uplift_pct comes only
\* with the baseline flagged unsafe and another arm flagged safe.
UpliftSign ==
    \A r \in Runs : Returned(r) =>
        /\ run[r].uplift_pct[2] > 0
        /\ run[r].safe_df[baseline_arm].is_safe =>
              /\ run[r].uplift_pct[1] >= 0
              /\ ~Less(mean_rev(run[r].posteriors[run[r].best_arm]),
                       mean_rev(run[r].posteriors[baseline_arm]))
        /\ run[r].uplift_pct[1] < 0 =>
              /\ ~run[r].safe_df[baseline_arm].is_safe
              /\ SafeFlagged(r) \ {baseline_arm} # {}

\* A run returning a negative uplift.
UpliftSignWitness ==
    \E r \in Runs :
        /\ Returned(r)
        /\ run[r].uplift_pct[1] < 0
        /\ run[r].best_arm # baseline_arm


\* C30. Lookup flow state: a click with an empty handle (ValueError) or
\* with a platform other than OnlyFans (NotImplementedError) leaves the
\* stored web_profile as it was and shows the error; any other click
\* replaces web_profile by the record fetch_onlyfans_profile returns and
\* shows the success message; this holds click after click.
LookupFlow ==
    [][IF app'.handle = <<>>
       THEN /\ app'.web_profile = app.web_profile
            /\ app'.sidebar = "ValueError"
       ELSE IF app'.platform # "OnlyFans"
       THEN /\ app'.web_profile = app.web_profile
            /\ app'.sidebar = "NotImplementedError"
       ELSE /\ app'.web_profile =
                   Some(fetch_onlyfans_profile(app'.handle, app'.response))
            /\ app'.sidebar = "success"]_vars

\* A failed lookup on another platform, after a lookup that stored a
\* profile parsed from a page: the profile is still there.
LookupFlowWitness ==
    /\ app.sidebar = "NotImplementedError"
    /\ app.web_profile # None
    /\ app.web_profile[1].raw_source = "onlyfans_meta_or_text"

====
